---- MODULE Spec2Model ----
(***************************************************************************)
(* Support-ticket lifecycle and notification dispatch of store-back.       *)
(*                                                                         *)
(* Persistence is Mongoose: document.save() validates the document, then   *)
(* runs the schema's pre('save') hook, then writes; findByIdAndUpdate       *)
(* writes the given fields with neither validation nor hooks.  Sub-         *)
(* documents are strict: a key the schema does not declare is dropped.      *)
(* One clock tick is 24 hours.                                              *)
(***************************************************************************)
EXTENDS Integers, Sequences, FiniteSets, TLC

\* ------------------------------------------------------------------ bounds
MaxClock == 2
MaxMsgs == 1

\* ------------------------------------------------------------------ users
Users == {"alice", "bob", "root"}
NoUser == "none"
GhostUser == "ghost"

\* The accounts that open tickets over the real-time channel.
Openers == {"alice", "root"}

\* User.isAdmin (default false); root is the one admin account.
isAdmin(u) == u = "root"

\* req.user.role: the User schema declares no `role` path, so the property
\* read on a hydrated User document is undefined for every user.
role(u) == "undefined"

\* ------------------------------------------------------------------ text
Upper == <<"A","B","C","D","E","F","G","H","I","J","K","L","M",
           "N","O","P","Q","R","S","T","U","V","W","X","Y","Z">>
Lower == <<"a","b","c","d","e","f","g","h","i","j","k","l","m",
           "n","o","p","q","r","s","t","u","v","w","x","y","z">>

toLowerChar(c) ==
    IF \E i \in 1..26 : Upper[i] = c
    THEN Lower[CHOOSE i \in 1..26 : Upper[i] = c]
    ELSE c

toLowerCase(s) == [i \in 1..Len(s) |-> toLowerChar(s[i])]

includes(s, sub) ==
    \E i \in 0..(Len(s) - Len(sub)) : SubSeq(s, i + 1, i + Len(sub)) = sub

KwUrgent == <<"u","r","g","e","n","t">>
KwEmergency == <<"e","m","e","r","g","e","n","c","y">>

\* A message path that was never set (or is the empty string).
NoText == <<>>

TxtHelp == <<"n","o","t"," ","u","r","g","e","n">>
TxtUrgent == <<"U","R","G","E","N","T"," ","n","e","e","d"," ","r","e","f","u","n","d">>
TxtFixed == <<"f","i","x","e","d">>
TxtEmergency == <<"A","n"," ","E","m","e","r","g","e","n","c","y">>

\* ------------------------------------------------------------------ tickets
Statuses == {"Open", "In Progress", "Resolved", "Closed"}
Priorities == {"Low", "Medium", "High", "Urgent"}
BogusStatus == "Bogus"
Absent == "absent"

NoDate == 0 - 1
TwentyFourHours == 1
TicketFloodLimit == 5
MessageFloodLimit == 10

SocketIds == {"s1", "s2"}
NoSocket == "none"

\* Ids in the order the store hands them out; MainIds are the ones the full
\* model uses, the others serve the ticket flood.
TicketOrder == <<"t1", "t2", "t3", "t4", "t5", "t6">>
TicketIds == { TicketOrder[i] : i \in 1..Len(TicketOrder) }
MainIds == {"t1"}
NoTicket == [exists |-> FALSE]
NoId == "none"

\* Sub-documents a real-time client can put in ticketData / updateData.
MsgInputs ==
    { [sender |-> "alice", message |-> TxtHelp,      isAdmin |-> FALSE],
      [sender |-> "alice", message |-> TxtUrgent,    isAdmin |-> FALSE],
      [sender |-> "root",  message |-> TxtFixed,     isAdmin |-> TRUE],
      [sender |-> "root",  message |-> TxtEmergency, isAdmin |-> TRUE] }

MsgSeqs == UNION { [1..n -> MsgInputs] : n \in 0..MaxMsgs }

\* One message more than the limit of rateLimitTicketOperations, all by the
\* same sender.
MessageBurst ==
    [i \in 1..(MessageFloodLimit + 1) |->
        [sender |-> "alice", message |-> TxtHelp, isAdmin |-> FALSE]]

\* Requests of the ticket routes that can be in flight together, and the
\* slot of a request that is not.
Requests == {"r1", "r2"}
Idle == [kind |-> "idle"]

VARIABLES tickets, now, last, serverUp, loaded,
          notifications, sockets, userSockets, webSocketServiceBound, dispatched

ticketVars == <<tickets, now, last, serverUp>>
registryVars == <<sockets, userSockets, webSocketServiceBound, dispatched>>
dispatchVars == <<notifications, registryVars>>
vars == <<ticketVars, loaded, dispatchVars>>

Exists(t) == tickets[t].exists

\* The _id a new document gets.
FreshId ==
    LET n == Cardinality({ x \in TicketIds : Exists(x) }) IN
    IF n < Len(TicketOrder) THEN TicketOrder[n + 1] ELSE NoId

\* new Ticket({...}): schema defaults for the paths the caller left out.
NewTicket(user, complete, status, priority, messages) ==
    [ exists        |-> TRUE,
      user          |-> user,
      complete      |-> complete,
      status        |-> IF status = Absent THEN "Open" ELSE status,
      priority      |-> IF priority = Absent THEN "Medium" ELSE priority,
      messages      |-> messages,
      assignedStaff |-> NoUser,
      closedAt      |-> NoDate,
      createdAt     |-> now ]

\* Built-in validation that save() runs before the schema's own hooks.
Validate(doc) ==
    /\ doc.complete
    /\ doc.user # NoUser
    /\ doc.status \in Statuses
    /\ doc.priority \in Priorities
    /\ \A i \in 1..Len(doc.messages) :
          /\ doc.messages[i].sender # NoUser
          /\ doc.messages[i].message # NoText

\* The filter of the pre-save hook on one message text.
isUrgentText(text) ==
    \/ includes(toLowerCase(text), KwUrgent)
    \/ includes(toLowerCase(text), KwEmergency)

\* Every text a message of the model can carry, and the filter's verdict on
\* each, computed once.
Texts == {NoText, TxtHelp, TxtUrgent, TxtFixed, TxtEmergency}
urgentTexts == { x \in Texts : isUrgentText(x) }

HasUrgent(messages) ==
    \E i \in 1..Len(messages) : messages[i].message \in urgentTexts

AllAdmin(messages) ==
    \A i \in 1..Len(messages) : messages[i].isAdmin

\* The auto-close rule without the closing date.
AutoClose_NoClosedAt(doc, t) ==
    IF Len(doc.messages) > 0 /\ AllAdmin(doc.messages) /\ doc.status # "Closed"
    THEN [doc EXCEPT !.status = "Closed"]
    ELSE doc

\* Auto-close ticket if all messages are resolved (first rule of the hook).
AutoClose(doc, t) ==
    IF Len(doc.messages) > 0 /\ AllAdmin(doc.messages) /\ doc.status # "Closed"
    THEN [doc EXCEPT !.status = "Closed", !.closedAt = t]
    ELSE doc

\* Escalate priority for urgent messages (second rule of the hook).
UrgentEscalation(doc) ==
    IF HasUrgent(doc.messages) /\ doc.priority # "Urgent"
    THEN [doc EXCEPT !.priority = "Urgent"]
    ELSE doc

PreSave(doc, t) == UrgentEscalation(AutoClose(doc, t))

NoDispatch == [op |-> "init"]

TicketInit ==
    /\ tickets = [t \in TicketIds |-> NoTicket]
    /\ now = 0
    /\ last = [op |-> "init", actor |-> NoUser, tid |-> NoId, code |-> "none",
               saved |-> FALSE, reqStatus |-> Absent, reqPriority |-> Absent,
               reqText |-> NoText]
    /\ serverUp = TRUE
    /\ loaded = [r \in Requests |-> Idle]

\* Which module is loaded first decides what notificationService's
\* require('../server') yields: started from server.js the require is
\* circular and `webSocketService` is destructured from the still empty
\* exports (undefined); loaded the other way round it is the service.
DispatchInit ==
    /\ notifications = <<>>
    /\ sockets = [s \in SocketIds |-> NoUser]
    /\ userSockets = [u \in Users |-> NoSocket]
    /\ webSocketServiceBound \in BOOLEAN
    /\ dispatched = NoDispatch

Init ==
    /\ TicketInit
    /\ DispatchInit
    /\ webSocketServiceBound = FALSE

Log(op, actor, tid, code, saved, reqStatus, reqPriority) ==
    last' = [op |-> op, actor |-> actor, tid |-> tid, code |-> code,
             saved |-> saved, reqStatus |-> reqStatus, reqPriority |-> reqPriority,
             reqText |-> NoText]

\* The same for a request that carries a message text.
LogText(op, actor, tid, code, saved, text) ==
    last' = [op |-> op, actor |-> actor, tid |-> tid, code |-> code,
             saved |-> saved, reqStatus |-> Absent, reqPriority |-> Absent,
             reqText |-> text]

\* The clock is counted from the opening of the first ticket.
Tick ==
    /\ serverUp
    /\ \E t \in TicketIds : Exists(t)
    /\ now < MaxClock
    /\ now' = now + 1
    /\ Log("tick", NoUser, NoId, "none", FALSE, Absent, Absent)
    /\ UNCHANGED <<loaded, tickets, serverUp, dispatchVars>>

\* ------------------------------------------------------- real-time channel
CreateStatuses == {Absent} \cup Statuses \cup {BogusStatus}
CreatePriorities == {Absent} \cup Priorities

Reject(op, u, t, code) ==
    /\ Log(op, u, t, code, FALSE, Absent, Absent)
    /\ UNCHANGED <<tickets, notifications>>

\* socket.on('create_ticket'): new Ticket({...ticketData, user}).save(), then
\* new_ticket to the admins' sockets; any failure is sent back as ticket_error.
createTicketEvent(u, t, ticketData) ==
    LET doc == NewTicket(u, ticketData.complete, ticketData.status,
                         ticketData.priority, ticketData.messages) IN
    IF Validate(doc)
    THEN /\ tickets' = [tickets EXCEPT ![t] = PreSave(doc, now)]
         /\ Log("create_ticket", u, t, "new_ticket", TRUE,
                ticketData.status, ticketData.priority)
         /\ UNCHANGED notifications
    ELSE Reject("create_ticket", u, t, "ticket_error")

WsCreateTicketWith(ids, inputs) ==
    /\ serverUp
    /\ FreshId \in ids
    /\ \E u \in Openers, ticketData \in inputs :
          createTicketEvent(u, FreshId, ticketData)
    /\ UNCHANGED <<loaded, now, serverUp, registryVars>>

\* ticketData a client sends.
TicketData ==
    [complete : BOOLEAN, status : CreateStatuses, priority : CreatePriorities,
     messages : MsgSeqs]

WsCreateTicket == WsCreateTicketWith(MainIds, TicketData)

\* Tickets opened over the socket with nothing but the required paths.
PlainData ==
    { [complete |-> TRUE, status |-> Absent, priority |-> Absent, messages |-> <<>>] }

NoUpdate == [status |-> Absent, priority |-> Absent, assignedStaff |-> Absent,
             setMessages |-> FALSE, messages |-> <<>>]

\* updateData a client sends: one path each, message lists of at most one;
\* the update runs no validators, so a status outside the enum is written.
UpdateInputs ==
    { [NoUpdate EXCEPT !.status = s] : s \in Statuses \cup {BogusStatus} }
    \cup { [NoUpdate EXCEPT !.priority = p] : p \in Priorities }
    \cup { [NoUpdate EXCEPT !.assignedStaff = "bob"] }
    \cup { [NoUpdate EXCEPT !.setMessages = TRUE, !.messages = m] :
             m \in { q \in MsgSeqs : Len(q) <= 1 } }

\* Ticket.findByIdAndUpdate(ticketId, updateData, {new: true}): a $set of the
\* given paths; validators and save hooks do not run.
findByIdAndUpdate(doc, upd) ==
    [doc EXCEPT
        !.status        = IF upd.status = Absent THEN @ ELSE upd.status,
        !.priority      = IF upd.priority = Absent THEN @ ELSE upd.priority,
        !.assignedStaff = IF upd.assignedStaff = Absent THEN @ ELSE upd.assignedStaff,
        !.messages      = IF upd.setMessages THEN upd.messages ELSE @]

\* socket.on('update_ticket'): no check of the sender.  For an unknown id the
\* query yields null and notifyTicketUpdate(null), which is not awaited,
\* rejects outside the try: the unhandledRejection handler exits the process.
updateTicketEvent(u, t, inputs) ==
    IF Exists(t)
    THEN \E upd \in inputs :
         /\ tickets' = [tickets EXCEPT ![t] = findByIdAndUpdate(@, upd)]
         /\ Log("update_ticket", u, t, "ticket_updated", FALSE, Absent, Absent)
         /\ UNCHANGED <<serverUp, notifications>>
    ELSE /\ serverUp' = FALSE
         /\ Reject("update_ticket", u, t, "exit")

WsUpdateTicket ==
    /\ serverUp
    /\ \E u \in Users, t \in MainIds : updateTicketEvent(u, t, UpdateInputs)
    /\ UNCHANGED <<loaded, now, registryVars>>

\* ------------------------------------------------------ notification data
MaxNotifications == 2

\* NotificationSchema.type enum
NotificationTypes ==
    { "TICKET_CREATED", "TICKET_UPDATED", "TICKET_ASSIGNED",
      "TICKET_ESCALATED", "TICKET_CLOSED", "MESSAGE_RECEIVED" }

UnmappedType == "TICKET_REOPENED"

\* The types the model dispatches.
DispatchTypes == {"TICKET_CREATED", "TICKET_UPDATED", UnmappedType}

GenericMessage == "You have a ticket notification."

\* messages[type] || generic; the keys of `messages` are the six types.
getNotificationMessage(t, type) ==
    IF type \in NotificationTypes
    THEN [template |-> type, ticket |-> t]
    ELSE [template |-> GenericMessage, ticket |-> NoId]

\* Validation Notification.create runs: user, type and message are required
\* and type is checked against the enum.
ValidateNotification(data) ==
    /\ data.user # NoUser
    /\ data.type \in NotificationTypes
    /\ data.message.template # ""

notificationData(u, t, type) ==
    [user |-> u, ticket |-> t, type |-> type,
     message |-> getNotificationMessage(t, type), isRead |-> FALSE]

\* Notification.createNotification(data): the records it adds.
createNotification(u, t, type) ==
    IF ValidateNotification(notificationData(u, t, type))
    THEN <<notificationData(u, t, type)>>
    ELSE <<>>

\* The record a controller's notify call leaves behind: notifyTicketCreation
\* and notifyTicketUpdate dispatch to the ticket's user, a method the class
\* lacks throws before anything is written.
notifyRecords(method, doc, t) ==
    IF method = "notifyTicketCreation" THEN createNotification(doc.user, t, "TICKET_CREATED")
    ELSE IF method = "notifyTicketUpdate" THEN createNotification(doc.user, t, "TICKET_UPDATED")
    ELSE <<>>

\* ------------------------------------------------------------ REST gates
\* authMiddleware.admin
admin(u) == isAdmin(u)

\* ticketMiddleware.checkTicketAccess
checkTicketAccess(u, t) ==
    IF ~Exists(t) THEN "404"
    ELSE IF role(u) = "admin" THEN "next"
    ELSE IF tickets[t].user # u THEN "403"
    ELSE "next"

\* Ticket.countDocuments({user, createdAt >= now - 24h})
recentTickets(u) ==
    Cardinality({ t \in TicketIds :
        Exists(t) /\ tickets[t].user = u /\ tickets[t].createdAt >= now - TwentyFourHours })

\* Tickets holding a message sent by u; which of them also hold a message of
\* the last five minutes is not tracked, messages carry client-set dates.
ticketsWithMessageBy(u) ==
    { t \in TicketIds :
        Exists(t) /\ \E i \in 1..Len(tickets[t].messages) : tickets[t].messages[i].sender = u }

\* Methods the NotificationService class defines.
NotificationServiceMethods ==
    { "createInAppNotification", "sendNotification", "getNotificationMessage",
      "sendEmailNotification", "getEmailSubject", "getEmailTemplate",
      "notifyTicketCreation", "notifyTicketUpdate" }

\* await NotificationService.<method>(...) inside the controller's try: a
\* method the class lacks is a TypeError, answered by the catch with 400.
AfterNotify(method, okCode) ==
    IF method \in NotificationServiceMethods THEN okCode ELSE "400"

\* ------------------------------------------------------- REST controllers
\* GET /api/tickets/:id  (protect, checkTicketAccess, getTicketById)
getTicketByIdCode(u, t) ==
    IF checkTicketAccess(u, t) # "next" THEN checkTicketAccess(u, t)
    ELSE IF tickets[t].user # u /\ ~isAdmin(u) THEN "403"
    ELSE "200"

GetTicketById ==
    /\ serverUp
    /\ \E u \in Users, t \in MainIds :
          Reject("getTicketById", u, t, getTicketByIdCode(u, t))
    /\ UNCHANGED <<loaded, now, serverUp, registryVars>>

\* ticket.messages.push({sender, content}): `content` is no path of the
\* message sub-schema and is dropped, `message` stays unset.
PushedMessage(u, content) ==
    [sender |-> u, message |-> NoText, isAdmin |-> FALSE]

addTicketMessageDoc(doc, u, content) ==
    [doc EXCEPT
        !.messages = Append(@, PushedMessage(u, content)),
        !.status   = IF @ = "Closed" THEN "In Progress" ELSE @]

\* ticketMiddleware.rateLimitTicketOperations, recent being the tickets the
\* count matches.
rateLimitTicketOperations(recent) ==
    IF Cardinality(recent) >= MessageFloodLimit THEN "429" ELSE "next"

\* POST /api/tickets/:id/messages
\* (protect, checkTicketAccess, rateLimitTicketOperations, addTicketMessage)
AddTicketMessage ==
    /\ serverUp
    /\ \E u \in Users, t \in MainIds :
          IF checkTicketAccess(u, t) # "next"
          THEN Reject("addTicketMessage", u, t, checkTicketAccess(u, t))
          ELSE \E recent \in SUBSET ticketsWithMessageBy(u), content \in {TxtHelp, TxtUrgent} :
               IF rateLimitTicketOperations(recent) # "next"
               THEN Reject("addTicketMessage", u, t, "429")
               ELSE IF tickets[t].user # u /\ ~isAdmin(u)
               THEN Reject("addTicketMessage", u, t, "403")
               ELSE LET doc == addTicketMessageDoc(tickets[t], u, content) IN
                    IF Validate(doc)
                    THEN /\ Len(notifications) < MaxNotifications
                         /\ tickets' = [tickets EXCEPT ![t] = PreSave(doc, now)]
                         /\ notifications' = notifications \o
                                notifyRecords("notifyTicketUpdate", PreSave(doc, now), t)
                         /\ LogText("addTicketMessage", u, t,
                                AfterNotify("notifyTicketUpdate", "200"), TRUE, content)
                    ELSE /\ LogText("addTicketMessage", u, t, "400", FALSE, content)
                         /\ UNCHANGED <<tickets, notifications>>
    /\ UNCHANGED <<loaded, now, serverUp, registryVars>>

StatusInputs == {Absent} \cup Statuses \cup {BogusStatus}
StaffInputs == {Absent, "bob", GhostUser}

\* The assignments of updateTicketStatus between the two lookups and save().
updateTicketStatusDoc(doc, u, status, staff) ==
    [doc EXCEPT
        !.status = IF status = Absent THEN @ ELSE status,
        !.assignedStaff = IF staff # Absent /\ isAdmin(u) THEN staff ELSE @]

\* updateTicketStatus writing the new status before it looks up the staff.
UpdateTicketStatus_SaveBeforeStaff ==
    /\ serverUp
    /\ \E u \in Users, t \in MainIds :
          IF ~admin(u)
          THEN Reject("updateTicketStatus", u, t, "403")
          ELSE IF ~Exists(t)
          THEN Reject("updateTicketStatus", u, t, "404")
          ELSE \E status \in StatusInputs, staff \in StaffInputs :
               IF status # Absent /\ status \notin Statuses
               THEN /\ Log("updateTicketStatus", u, t, "400", FALSE, status, Absent)
                    /\ UNCHANGED <<tickets, notifications>>
               ELSE IF staff # Absent /\ isAdmin(u) /\ staff \notin Users
               THEN /\ Log("updateTicketStatus", u, t, "404", FALSE, Absent, Absent)
                    /\ tickets' = [tickets EXCEPT
                           ![t] = updateTicketStatusDoc(@, u, status, Absent)]
                    /\ UNCHANGED notifications
               ELSE LET doc == updateTicketStatusDoc(tickets[t], u, status, staff) IN
                    IF Validate(doc)
                    THEN /\ tickets' = [tickets EXCEPT ![t] = PreSave(doc, now)]
                         /\ notifications' = notifications \o
                                notifyRecords("notifyTicketStatusUpdate", PreSave(doc, now), t)
                         /\ Log("updateTicketStatus", u, t,
                                AfterNotify("notifyTicketStatusUpdate", "200"),
                                TRUE, status, Absent)
                    ELSE Reject("updateTicketStatus", u, t, "400")
    /\ UNCHANGED <<loaded, now, serverUp, registryVars>>

\* PATCH /api/tickets/:id/status  (protect, admin, updateTicketStatus)
UpdateTicketStatus ==
    /\ serverUp
    /\ \E u \in Users, t \in MainIds :
          IF ~admin(u)
          THEN Reject("updateTicketStatus", u, t, "403")
          ELSE IF ~Exists(t)
          THEN Reject("updateTicketStatus", u, t, "404")
          ELSE \E status \in StatusInputs, staff \in StaffInputs :
               IF status # Absent /\ status \notin Statuses
               THEN /\ Log("updateTicketStatus", u, t, "400", FALSE, status, Absent)
                    /\ UNCHANGED <<tickets, notifications>>
               ELSE IF staff # Absent /\ isAdmin(u) /\ staff \notin Users
               THEN /\ Log("updateTicketStatus", u, t, "404", FALSE, Absent, Absent)
                    /\ UNCHANGED <<tickets, notifications>>
               ELSE LET doc == updateTicketStatusDoc(tickets[t], u, status, staff) IN
                    IF Validate(doc)
                    THEN /\ tickets' = [tickets EXCEPT ![t] = PreSave(doc, now)]
                         /\ notifications' = notifications \o
                                notifyRecords("notifyTicketStatusUpdate", PreSave(doc, now), t)
                         /\ Log("updateTicketStatus", u, t,
                                AfterNotify("notifyTicketStatusUpdate", "200"),
                                TRUE, status, Absent)
                    ELSE Reject("updateTicketStatus", u, t, "400")
    /\ UNCHANGED <<loaded, now, serverUp, registryVars>>

\* The escalation branch of escalateTicket; seniorSupport is the result of
\* User.findOne({role: 'Senior Support', isActive: true}), NoUser for null.
escalateDoc(doc, seniorSupport) ==
    IF now - doc.createdAt > TwentyFourHours /\ doc.status = "Open"
    THEN [doc EXCEPT
            !.priority = "High",
            !.status = "In Progress",
            !.assignedStaff = IF seniorSupport # NoUser THEN seniorSupport ELSE @,
            !.messages = Append(@, [sender |-> NoUser, message |-> NoText,
                                    isAdmin |-> FALSE])]
    ELSE doc

\* PUT /api/tickets/:id/escalate  (protect, admin, escalateTicket).  Neither
\* `role` nor `isActive` is a path of the User schema: what the lookup
\* matches depends on the driver's strictQuery setting.
EscalateTicket ==
    /\ serverUp
    /\ \E u \in Users, t \in MainIds :
          IF ~admin(u)
          THEN Reject("escalateTicket", u, t, "403")
          ELSE IF ~Exists(t)
          THEN Reject("escalateTicket", u, t, "404")
          ELSE \E seniorSupport \in {"bob", NoUser} :
               LET doc == escalateDoc(tickets[t], seniorSupport) IN
               IF Validate(doc)
               THEN /\ tickets' = [tickets EXCEPT ![t] = PreSave(doc, now)]
                    /\ notifications' = notifications \o
                           notifyRecords("notifyTicketEscalation", PreSave(doc, now), t)
                    /\ Log("escalateTicket", u, t,
                           AfterNotify("notifyTicketEscalation", "200"), TRUE, Absent, Absent)
               ELSE Reject("escalateTicket", u, t, "400")
    /\ UNCHANGED <<loaded, now, serverUp, registryVars>>

\* ticketMiddleware.validateTicketCreation; body is how the request carries
\* subject / description / priority.
BodyInputs == {"valid", "invalid", "missing"}

\* The flood check admitting a user who is exactly at the limit.
validateTicketCreation_Above(u, body) ==
    IF recentTickets(u) > TicketFloodLimit THEN "429"
    ELSE IF body = "missing" THEN "500"
    ELSE IF body = "invalid" THEN "400"
    ELSE "next"

\* ticketMiddleware.validateTicketCreation
validateTicketCreation(u, body) ==
    IF recentTickets(u) >= TicketFloodLimit THEN "429"
    ELSE IF body = "missing" THEN "500"
    ELSE IF body = "invalid" THEN "400"
    ELSE "next"

\* initialMessage || 'New ticket created'
TxtNewTicket ==
    <<"N","e","w"," ","t","i","c","k","e","t"," ","c","r","e","a","t","e","d">>

initialContent(initialMessage) ==
    IF initialMessage = NoText THEN TxtNewTicket ELSE initialMessage

\* The document createTicket builds: order, user, status and one message
\* {sender, content}; subject and description are never copied from the body.
createTicketDoc(u, initialMessage) ==
    NewTicket(u, FALSE, "Open", Absent,
              <<PushedMessage(u, initialContent(initialMessage))>>)

\* POST /api/tickets
\* (protect, validateTicketCreation, autoAssignTicket, createTicket);
\* orderOwner is the user of the referenced order, NoUser when there is none.
CreateTicketOn(ids) ==
    /\ serverUp
    /\ FreshId \in ids
    /\ \E u \in Users, t \in {FreshId}, body \in BodyInputs,
          orderOwner \in {"alice", NoUser}, initialMessage \in {TxtHelp, NoText} :
          /\ IF validateTicketCreation(u, body) # "next"
             THEN Reject("createTicket", u, t, validateTicketCreation(u, body))
             ELSE IF orderOwner # u
             THEN Reject("createTicket", u, t, "404")
             ELSE LET doc == createTicketDoc(u, initialMessage) IN
                  IF Validate(doc)
                  THEN /\ tickets' = [tickets EXCEPT ![t] = PreSave(doc, now)]
                       /\ notifications' = notifications \o
                              notifyRecords("notifyTicketCreation", PreSave(doc, now), t)
                       /\ LogText("createTicket", u, t,
                              AfterNotify("notifyTicketCreation", "201"), TRUE,
                              initialContent(initialMessage))
                  ELSE /\ LogText("createTicket", u, t, "400", FALSE,
                                  initialContent(initialMessage))
                       /\ UNCHANGED <<tickets, notifications>>
    /\ UNCHANGED <<loaded, now, serverUp, registryVars>>

CreateTicket == CreateTicketOn(MainIds)

\* ------------------------------------------------- registry and dispatch
\* Tokens a client can put in the handshake: none, one that jwt.verify
\* rejects, one signed for an id no user has, and one for each user.
NoToken == [present |-> FALSE, signed |-> FALSE, id |-> NoUser]
Tokens ==
    {NoToken}
    \cup { [present |-> TRUE, signed |-> FALSE, id |-> "alice"] }
    \cup { [present |-> TRUE, signed |-> TRUE, id |-> u] : u \in Users \cup {GhostUser} }

\* The handshake letting through every token that verifies.
authenticateSocket_NoUserCheck(token) ==
    IF ~token.present THEN "Authentication error"
    ELSE IF ~token.signed THEN "Authentication error"
    ELSE "next"

\* WebSocketService.authenticateSocket
authenticateSocket(token) ==
    IF ~token.present THEN "Authentication error"
    ELSE IF ~token.signed THEN "Authentication error"
    ELSE IF token.id \notin Users THEN "User not found"
    ELSE "next"

\* userSockets.get(userId)
socketOf(u) == IF u \in Users THEN userSockets[u] ELSE NoSocket

\* The connection handler keeping the entry a user already has.
Connect_KeepFirst ==
    /\ serverUp
    /\ \E s \in SocketIds, token \in Tokens :
          /\ sockets[s] = NoUser
          /\ IF authenticateSocket(token) = "next"
             THEN /\ sockets' = [sockets EXCEPT ![s] = token.id]
                  /\ userSockets' = [u \in Users |->
                         IF u = token.id /\ userSockets[u] = NoSocket
                         THEN s ELSE userSockets[u]]
                  /\ dispatched' = [op |-> "connect", socket |-> s,
                                    user |-> token.id, token |-> token]
             ELSE /\ dispatched' = [op |-> "connect_error", socket |-> s,
                                    user |-> NoUser, token |-> token]
                  /\ UNCHANGED <<sockets, userSockets>>
    /\ UNCHANGED <<loaded, notifications, webSocketServiceBound, ticketVars>>

\* A client connects: io.use(authenticateSocket), then io.on('connection')
\* for the sockets the middleware let through.
Connect ==
    /\ serverUp
    /\ \E s \in SocketIds, token \in Tokens :
          /\ sockets[s] = NoUser
          /\ IF authenticateSocket(token) = "next"
             THEN /\ sockets' = [sockets EXCEPT ![s] = token.id]
                  /\ userSockets' = [u \in Users |->
                         IF u = token.id THEN s ELSE userSockets[u]]
                  /\ dispatched' = [op |-> "connect", socket |-> s,
                                    user |-> token.id, token |-> token]
             ELSE /\ dispatched' = [op |-> "connect_error", socket |-> s,
                                    user |-> NoUser, token |-> token]
                  /\ UNCHANGED <<sockets, userSockets>>
    /\ UNCHANGED <<loaded, notifications, webSocketServiceBound, ticketVars>>

\* socket.on('disconnect'): userSockets.delete(socket.user._id)
Disconnect ==
    /\ serverUp
    /\ \E s \in SocketIds :
          /\ sockets[s] # NoUser
          /\ userSockets' = [u \in Users |->
                 IF u = sockets[s] THEN NoSocket ELSE userSockets[u]]
          /\ sockets' = [sockets EXCEPT ![s] = NoUser]
          /\ dispatched' = [op |-> "disconnect", socket |-> s, user |-> sockets[s]]
    /\ UNCHANGED <<loaded, notifications, webSocketServiceBound, ticketVars>>

\* webSocketService.broadcastNotification(userId, notification)
broadcastNotification(u) ==
    IF ~webSocketServiceBound THEN "threw"
    ELSE IF userSockets[u] # NoSocket THEN "emitted"
    ELSE "none"

\* The sockets broadcastNotification emits new_notification to, in order.
emitTargets(u) ==
    IF socketOf(u) # NoSocket THEN <<socketOf(u)>> ELSE <<>>

\* A call of broadcastNotification on the service object itself.
BroadcastNotification ==
    /\ serverUp
    /\ \E u \in Users :
          dispatched' = [op |-> "broadcastNotification", user |-> u,
                         to |-> emitTargets(u), threw |-> FALSE]
    /\ UNCHANGED <<loaded, notifications, sockets, userSockets, webSocketServiceBound,
                   ticketVars>>

\* User.find({isAdmin: true}), in the order the query returns them.
AdminOrder == <<"root">>

\* The admins' registry entries without the filter for missing ones.
getAdminSockets_NoFilter ==
    [i \in 1..Len(AdminOrder) |-> socketOf(AdminOrder[i])]

\* WebSocketService.getAdminSockets
getAdminSockets ==
    SelectSeq([i \in 1..Len(AdminOrder) |-> socketOf(AdminOrder[i])],
              LAMBDA x : x # NoSocket)

\* WebSocketService.notifyTicketUpdate: the sockets ticket_updated is
\* emitted to, in order.
notifyTicketUpdate(doc) ==
    (IF socketOf(doc.user) # NoSocket THEN <<socketOf(doc.user)>> ELSE <<>>)
    \o (IF doc.assignedStaff # NoUser /\ socketOf(doc.assignedStaff) # NoSocket
        THEN <<socketOf(doc.assignedStaff)>> ELSE <<>>)
    \o getAdminSockets

\* updateData of the clients of the socket model; the update runs no
\* validators, so a status outside the enum is written as it comes.
SocketUpdateInputs ==
    { [NoUpdate EXCEPT !.assignedStaff = "bob"],
      [NoUpdate EXCEPT !.status = "Resolved"],
      [NoUpdate EXCEPT !.status = BogusStatus] }

\* ticketData of the clients of the socket model: with and without the
\* required paths.
SocketTicketData ==
    PlainData \cup
    { [complete |-> FALSE, status |-> Absent, priority |-> Absent, messages |-> <<>>] }

\* A client emits create_ticket on socket s.  The listeners exist only on the
\* sockets the connection handler has seen (setupTicketEvents).
SocketCreateTicket ==
    /\ serverUp
    /\ \E s \in SocketIds :
          IF sockets[s] = NoUser
          THEN /\ dispatched' = [op |-> "create_ticket", socket |-> s, user |-> NoUser,
                                 handled |-> FALSE, to |-> <<>>]
               /\ UNCHANGED <<tickets, last, notifications>>
          ELSE \E t \in MainIds \cap {FreshId}, ticketData \in SocketTicketData :
               /\ createTicketEvent(sockets[s], t, ticketData)
               /\ dispatched' = [op |-> "create_ticket", socket |-> s,
                                 user |-> sockets[s], handled |-> TRUE,
                                 to |-> IF ticketData.complete
                                        THEN getAdminSockets ELSE <<s>>]
    /\ UNCHANGED <<loaded, now, serverUp, sockets, userSockets, webSocketServiceBound>>

\* A client emits update_ticket on socket s.
SocketUpdateTicket ==
    /\ \E s \in SocketIds :
          IF sockets[s] = NoUser
          THEN /\ serverUp
               /\ dispatched' = [op |-> "update_ticket", socket |-> s, user |-> NoUser,
                                 handled |-> FALSE, to |-> <<>>]
               /\ UNCHANGED <<tickets, last, notifications, serverUp>>
          ELSE \E t \in MainIds :
               /\ serverUp
               /\ updateTicketEvent(sockets[s], t, SocketUpdateInputs)
               /\ dispatched' = [op |-> "update_ticket", socket |-> s,
                                 user |-> sockets[s], handled |-> TRUE,
                                 to |-> IF Exists(t)
                                        THEN notifyTicketUpdate(tickets'[t]) ELSE <<>>]
    /\ UNCHANGED <<loaded, now, sockets, userSockets, webSocketServiceBound>>

Dispatched(u, type, persisted, push, email, returned) ==
    dispatched' = [op |-> "sendNotification", user |-> u, type |-> type,
                   persisted |-> persisted, push |-> push, email |-> email,
                   returned |-> returned]

\* sendEmailNotification letting the transport's error through.
sendEmailNotification_Rethrow(mailOk) ==
    IF mailOk THEN "sent" ELSE "threw"

\* NotificationService.sendEmailNotification; mailOk is the outcome of
\* transporter.sendMail, whose error the method catches and logs.
sendEmailNotification(mailOk) ==
    IF mailOk THEN "sent" ELSE "failed"

\* NotificationService.sendNotification(user, ticket, type), with
\* createInAppNotification inlined; whatever throws inside its try is
\* logged and the method returns undefined.
SendNotification ==
    /\ Len(notifications) < MaxNotifications
    /\ \E u \in Users, t \in MainIds, type \in DispatchTypes, mailOk \in BOOLEAN :
          IF createNotification(u, t, type) = <<>>
          THEN /\ Dispatched(u, type, FALSE, "skipped", "skipped", "undefined")
               /\ UNCHANGED notifications
          ELSE /\ notifications' = notifications \o createNotification(u, t, type)
               /\ IF broadcastNotification(u) = "threw"
                  THEN Dispatched(u, type, TRUE, "threw", "skipped", "undefined")
                  ELSE Dispatched(u, type, TRUE, broadcastNotification(u),
                                  sendEmailNotification(mailOk),
                                  IF sendEmailNotification(mailOk) = "threw"
                                  THEN "undefined" ELSE "notification")
    /\ UNCHANGED <<loaded, sockets, userSockets, webSocketServiceBound, ticketVars>>

DispatchNext ==
    \/ Connect
    \/ Disconnect
    \/ SendNotification

\* The dispatcher on its own, under either load order.
DispatchStart ==
    /\ TicketInit
    /\ DispatchInit

DispatchSpec == DispatchStart /\ [][DispatchNext]_vars

\* ---------------------------------------------------- notification REST
\* A notification's _id is its place in the collection; one id past the
\* last is an id no notification has.
NotificationIds == 1..(MaxNotifications + 1)

\* Notification.countDocuments({user})
totalNotifications(u) ==
    Len(SelectSeq(notifications, LAMBDA n : n.user = u))

\* Notification.countDocuments({user, read: false}). The schema declares
\* isRead, not read: with strictQuery on the unknown key is dropped from the
\* filter and every notification of the user counts, with strictQuery off
\* the key stays and matches no document.
unreadCount(u, strictQuery) ==
    IF strictQuery THEN totalNotifications(u) ELSE 0

\* GET /api/notifications
GetNotifications ==
    /\ serverUp
    /\ \E u \in Users, strictQuery \in BOOLEAN :
          dispatched' = [op |-> "getNotifications", user |-> u, code |-> "200",
                         totalNotifications |-> totalNotifications(u),
                         unreadCount |-> unreadCount(u, strictQuery)]
    /\ UNCHANGED <<loaded, notifications, sockets, userSockets, webSocketServiceBound,
                   ticketVars>>

\* The filter {_id, user} with the user condition left out.
findOwn_AnyUser(u, id) ==
    id \in 1..Len(notifications)

\* The filter {_id: req.params.id, user: req.user._id}
findOwn(u, id) ==
    /\ id \in 1..Len(notifications)
    /\ notifications[id].user = u

\* The update {read: true} applied to a notification: `read` is not a path
\* of the strict schema, so the update sets nothing.
setRead(n) == n

\* PATCH /api/notifications/:id/read
MarkNotificationAsRead ==
    /\ serverUp
    /\ \E u \in Users, id \in NotificationIds :
          IF findOwn(u, id)
          THEN /\ notifications' = [notifications EXCEPT ![id] = setRead(@)]
               /\ dispatched' = [op |-> "markNotificationAsRead", user |-> u,
                                 id |-> id, code |-> "200"]
          ELSE /\ UNCHANGED notifications
               /\ dispatched' = [op |-> "markNotificationAsRead", user |-> u,
                                 id |-> id, code |-> "404"]
    /\ UNCHANGED <<loaded, sockets, userSockets, webSocketServiceBound, ticketVars>>

\* DELETE /api/notifications: Notification.deleteMany({user})
ClearAllNotifications ==
    /\ serverUp
    /\ \E u \in Users :
          /\ notifications' = SelectSeq(notifications, LAMBDA n : n.user # u)
          /\ dispatched' = [op |-> "clearAllNotifications", user |-> u,
                            code |-> "204"]
    /\ UNCHANGED <<loaded, sockets, userSockets, webSocketServiceBound, ticketVars>>

NotificationNext ==
    \/ SendNotification
    \/ GetNotifications
    \/ MarkNotificationAsRead
    \/ ClearAllNotifications

\* The dispatcher and the notification routes.
NotificationSpec == DispatchStart /\ [][NotificationNext]_vars

\* ------------------------------------------------- requests in flight
\* What ticket.save() writes for a document read earlier: the paths whose
\* value differs from the one read are set, the messages pushed since the
\* read are appended; every other path of the stored document stays.
saveChanges(stored, read, doc) ==
    [stored EXCEPT
        !.status        = IF doc.status # read.status THEN doc.status ELSE @,
        !.priority      = IF doc.priority # read.priority THEN doc.priority ELSE @,
        !.assignedStaff = IF doc.assignedStaff # read.assignedStaff
                          THEN doc.assignedStaff ELSE @,
        !.closedAt      = IF doc.closedAt # read.closedAt THEN doc.closedAt ELSE @,
        !.messages      = @ \o SubSeq(doc.messages, Len(read.messages) + 1,
                                      Len(doc.messages))]

Loaded(kind, u, t, doc, reqStatus, text) ==
    [kind |-> kind, actor |-> u, tid |-> t, read |-> tickets[t], doc |-> doc,
     reqStatus |-> reqStatus, text |-> text]

\* updateTicketStatus up to its save(): the lookup, the checks and the
\* assignments on the document read.
UpdateTicketStatusFind ==
    /\ serverUp
    /\ \E r \in Requests, u \in Users, t \in MainIds :
          /\ loaded[r] = Idle
          /\ IF ~admin(u)
             THEN Reject("updateTicketStatus", u, t, "403") /\ UNCHANGED loaded
             ELSE IF ~Exists(t)
             THEN Reject("updateTicketStatus", u, t, "404") /\ UNCHANGED loaded
             ELSE \E status \in StatusInputs, staff \in StaffInputs :
                  IF status # Absent /\ status \notin Statuses
                  THEN /\ Log("updateTicketStatus", u, t, "400", FALSE, status, Absent)
                       /\ UNCHANGED <<tickets, notifications, loaded>>
                  ELSE IF staff # Absent /\ isAdmin(u) /\ staff \notin Users
                  THEN /\ Log("updateTicketStatus", u, t, "404", FALSE, Absent, Absent)
                       /\ UNCHANGED <<tickets, notifications, loaded>>
                  ELSE /\ loaded' = [loaded EXCEPT ![r] =
                              Loaded("updateTicketStatus", u, t,
                                     updateTicketStatusDoc(tickets[t], u, status, staff),
                                     status, NoText)]
                       /\ UNCHANGED <<tickets, notifications, last>>
    /\ UNCHANGED <<now, serverUp, registryVars>>

\* addTicketMessage up to its save(), behind checkTicketAccess.
AddTicketMessageFind ==
    /\ serverUp
    /\ \E r \in Requests, u \in Users, t \in MainIds :
          /\ loaded[r] = Idle
          /\ IF checkTicketAccess(u, t) # "next"
             THEN Reject("addTicketMessage", u, t, checkTicketAccess(u, t))
                  /\ UNCHANGED loaded
             ELSE IF rateLimitTicketOperations(ticketsWithMessageBy(u)) # "next"
             THEN Reject("addTicketMessage", u, t, "429") /\ UNCHANGED loaded
             ELSE IF tickets[t].user # u /\ ~isAdmin(u)
             THEN Reject("addTicketMessage", u, t, "403") /\ UNCHANGED loaded
             ELSE \E content \in {TxtHelp} :
                  /\ loaded' = [loaded EXCEPT ![r] =
                         Loaded("addTicketMessage", u, t,
                                addTicketMessageDoc(tickets[t], u, content),
                                Absent, content)]
                  /\ UNCHANGED <<tickets, notifications, last>>
    /\ UNCHANGED <<now, serverUp, registryVars>>

\* The notify method each handler calls after its save().
notifyMethod(kind) ==
    IF kind = "addTicketMessage" THEN "notifyTicketUpdate"
    ELSE "notifyTicketStatusUpdate"

\* The rest of either handler: ticket.save() of the document in hand, the
\* notify call and the response.
TicketSave ==
    /\ serverUp
    /\ \E r \in Requests :
          /\ loaded[r] # Idle
          /\ loaded' = [loaded EXCEPT ![r] = Idle]
          /\ LET req == loaded[r]
                 t == req.tid
                 written == saveChanges(tickets[t], req.read, PreSave(req.doc, now)) IN
             IF Validate(req.doc)
             THEN /\ Len(notifications) < MaxNotifications
                  /\ tickets' = [tickets EXCEPT ![t] = written]
                  /\ notifications' = notifications \o
                         notifyRecords(notifyMethod(req.kind), written, t)
                  /\ last' = [op |-> req.kind, actor |-> req.actor, tid |-> t,
                              code |-> AfterNotify(notifyMethod(req.kind), "200"),
                              saved |-> TRUE, reqStatus |-> req.reqStatus,
                              reqPriority |-> Absent, reqText |-> req.text]
             ELSE /\ last' = [op |-> req.kind, actor |-> req.actor, tid |-> t,
                              code |-> "400", saved |-> FALSE,
                              reqStatus |-> req.reqStatus,
                              reqPriority |-> Absent, reqText |-> req.text]
                  /\ UNCHANGED <<tickets, notifications>>
    /\ UNCHANGED <<now, serverUp, registryVars>>

RaceWsCreateTicket == WsCreateTicketWith(MainIds, PlainData)

RaceNext ==
    \/ RaceWsCreateTicket
    \/ UpdateTicketStatusFind
    \/ AddTicketMessageFind
    \/ TicketSave

\* The ticket routes with the lookup and the save of a request as separate
\* steps, two requests at a time.
RaceSpec == Init /\ [][RaceNext]_vars

Next ==
    \/ Tick
    \/ WsCreateTicket
    \/ WsUpdateTicket
    \/ GetTicketById
    \/ AddTicketMessage
    \/ UpdateTicketStatus
    \/ EscalateTicket
    \/ CreateTicket

Spec == Init /\ [][Next]_vars

\* ------------------------------------------------------------ socket model
SocketNext ==
    \/ Connect
    \/ Disconnect
    \/ BroadcastNotification
    \/ SocketCreateTicket
    \/ SocketUpdateTicket

SocketSpec == Init /\ [][SocketNext]_vars

\* ------------------------------------------------------------ ticket flood
FloodWsCreateTicket == WsCreateTicketWith(TicketIds, PlainData)

FloodCreateTicket == CreateTicketOn(TicketIds)

FloodNext ==
    \/ Tick
    \/ FloodWsCreateTicket
    \/ FloodCreateTicket

FloodSpec == Init /\ [][FloodNext]_vars

\* ----------------------------------------------------------- message flood
\* Tickets opened over the socket with a burst of messages, or with none.
BurstData ==
    PlainData \cup
    { [complete |-> TRUE, status |-> Absent, priority |-> Absent,
       messages |-> MessageBurst] }

BurstWsCreateTicket == WsCreateTicketWith(MainIds, BurstData)

BurstNext ==
    \/ Tick
    \/ BurstWsCreateTicket
    \/ GetTicketById
    \/ AddTicketMessage
    \/ UpdateTicketStatus

BurstSpec == Init /\ [][BurstNext]_vars
\* =================================================================== claims
Tickets == { t \in TicketIds : Exists(t) }

Authorized(u, t) == u = tickets[t].user \/ isAdmin(u)

EscalationDue(t) ==
    now - tickets[t].createdAt > TwentyFourHours /\ tickets[t].status = "Open"

\* C1: every persisted ticket with status Closed has a closing date.
C1_ClosedHasClosedAt ==
    \A t \in Tickets : tickets[t].status = "Closed" => tickets[t].closedAt # NoDate

\* C2: a setStatus request or an update_ticket event of a non-admin actor is
\* answered Forbidden and leaves status and assigned staff of every ticket
\* as they were.
C2_NonAdminCannotSetStatus ==
    [][ \A t \in Tickets :
          (last'.op \in {"updateTicketStatus", "update_ticket"} /\ last'.tid = t
              /\ ~isAdmin(last'.actor))
          => /\ last'.op = "updateTicketStatus" => last'.code = "403"
             /\ tickets'[t].status = tickets[t].status
             /\ tickets'[t].assignedStaff = tickets[t].assignedStaff ]_vars

\* C3: viewing a ticket and appending a message succeed exactly when the
\* actor is the owner or an admin; anyone else is answered Forbidden and
\* messages and status stay as they were.
C3_AccessOwnerOrAdmin ==
    [][ \A t \in Tickets :
          (last'.op \in {"getTicketById", "addTicketMessage"} /\ last'.tid = t)
          => IF Authorized(last'.actor, t)
             THEN last'.code = "200"
             ELSE /\ last'.code = "403"
                  /\ tickets'[t].messages = tickets[t].messages
                  /\ tickets'[t].status = tickets[t].status ]_vars

\* C4: a ticket whose priority is Urgent keeps it through every operation.
C4_UrgentNeverLowered ==
    [][ \A t \in Tickets :
          tickets[t].priority = "Urgent" => tickets'[t].priority = "Urgent" ]_vars

\* C5: every call of sendNotification adds exactly one Notification record,
\* for the user it was called for.
C5_OneRecordPerDispatch ==
    [][ dispatched'.op = "sendNotification"
        => /\ Len(notifications') = Len(notifications) + 1
           /\ notifications'[Len(notifications')].user = dispatched'.user
           /\ SubSeq(notifications', 1, Len(notifications)) = notifications ]_vars

\* C6: a message appended by the owner or an admin to a Closed ticket leaves
\* the ticket In Progress with that message last.
C6_ReopenOnReply ==
    [][ \A t \in Tickets :
          (last'.op = "addTicketMessage" /\ last'.tid = t
              /\ tickets[t].status = "Closed" /\ Authorized(last'.actor, t))
          => /\ tickets'[t].status = "In Progress"
             /\ Len(tickets'[t].messages) = Len(tickets[t].messages) + 1
             /\ tickets'[t].messages[Len(tickets'[t].messages)].sender = last'.actor ]_vars

\* C7: a closing date, once written, is never changed.
C7_ClosedAtWrittenOnce ==
    [][ \A t \in Tickets :
          tickets[t].closedAt # NoDate => tickets'[t].closedAt = tickets[t].closedAt ]_vars

\* The status the document carries when save() is called in this step.
StatusAtSave(t) ==
    IF last'.op = "create_ticket"
    THEN (IF last'.reqStatus = Absent THEN "Open" ELSE last'.reqStatus)
    ELSE IF last'.op = "createTicket" THEN "Open"
    ELSE IF last'.op = "updateTicketStatus" /\ last'.reqStatus # Absent THEN last'.reqStatus
    ELSE IF last'.op = "addTicketMessage" /\ tickets[t].status = "Closed" THEN "In Progress"
    ELSE IF last'.op = "escalateTicket" /\ EscalationDue(t) THEN "In Progress"
    ELSE tickets[t].status

\* The priority the document carries when save() is called in this step.
PriorityAtSave(t) ==
    IF last'.op = "create_ticket"
    THEN (IF last'.reqPriority = Absent THEN "Medium" ELSE last'.reqPriority)
    ELSE IF last'.op = "createTicket" THEN "Medium"
    ELSE IF last'.op = "escalateTicket" /\ EscalationDue(t) THEN "High"
    ELSE tickets[t].priority

\* C8: every save of a ticket whose messages are non-empty and all carry
\* isAdmin, and whose status at the save is not Closed, persists the ticket
\* Closed with a closing date, whatever operation and actor saved it.
C8_AutoCloseOnSave ==
    [][ \A t \in TicketIds :
          (last'.saved /\ last'.tid = t
              /\ Len(tickets'[t].messages) > 0 /\ AllAdmin(tickets'[t].messages)
              /\ StatusAtSave(t) # "Closed")
          => /\ tickets'[t].status = "Closed"
             /\ tickets'[t].closedAt # NoDate ]_vars

\* An admin's setStatus to a status other than Closed was saved on a ticket
\* whose messages are all isAdmin, and the ticket is Closed all the same.
C8_Witness ==
    \E t \in Tickets :
        /\ last.op = "updateTicketStatus" /\ last.saved /\ last.tid = t
        /\ last.reqStatus \in {"Open", "In Progress", "Resolved"}
        /\ Len(tickets[t].messages) > 0 /\ AllAdmin(tickets[t].messages)
        /\ tickets[t].status = "Closed" /\ tickets[t].closedAt # NoDate

\* The texts of the model that hold "urgent" or "emergency" in some letter
\* case, listed by hand.
KeywordTexts == {TxtUrgent, TxtEmergency}

MentionsKeyword(messages) ==
    \E i \in 1..Len(messages) : messages[i].message \in KeywordTexts

\* The save-time keyword rule on the ticket saved in this step.
UrgentRuleOnSave(t) ==
    (last'.saved /\ last'.tid = t)
    => IF MentionsKeyword(tickets'[t].messages)
       THEN tickets'[t].priority = "Urgent"
       ELSE tickets'[t].priority = PriorityAtSave(t)

\* The save-time keyword rule alone, over every step.
UrgentRuleHolds == [][ \A t \in TicketIds : UrgentRuleOnSave(t) ]_vars

\* C9: after a save the ticket's priority is Urgent when one of its messages
\* holds "urgent" or "emergency" in any letter case, and the priority the
\* operation gave it otherwise; a message with such a text appended through
\* addTicketMessage by the owner or an admin is such a message, so the ticket
\* is Urgent after the request.
C9_UrgentOnSave ==
    [][ \A t \in Tickets :
          /\ UrgentRuleOnSave(t)
          /\ (last'.op = "addTicketMessage" /\ last'.tid = t
                 /\ Authorized(last'.actor, t) /\ last'.reqText \in KeywordTexts)
             => tickets'[t].priority = "Urgent" ]_vars

\* C10: an admin's escalate on a ticket that is not older than 24 hours or
\* not Open is answered with success and changes nothing of the ticket.
C10_EscalateNoOp ==
    [][ \A t \in Tickets :
          (last'.op = "escalateTicket" /\ last'.tid = t /\ isAdmin(last'.actor)
              /\ ~EscalationDue(t))
          => /\ last'.code = "200"
             /\ tickets'[t] = tickets[t] ]_vars

\* C11: an admin's escalate on an Open ticket older than 24 hours persists it
\* High and In Progress with one system message (no sender) appended last,
\* assigned to the Senior Support user found or as it was, and adds a
\* TICKET_ESCALATED notification.
C11_EscalateEffect ==
    [][ \A t \in Tickets :
          (last'.op = "escalateTicket" /\ last'.tid = t /\ isAdmin(last'.actor)
              /\ EscalationDue(t))
          => /\ tickets'[t].priority = "High"
             /\ tickets'[t].status = "In Progress"
             /\ Len(tickets'[t].messages) = Len(tickets[t].messages) + 1
             /\ SubSeq(tickets'[t].messages, 1, Len(tickets[t].messages))
                    = tickets[t].messages
             /\ tickets'[t].messages[Len(tickets'[t].messages)].sender = NoUser
             /\ tickets'[t].assignedStaff \in {tickets[t].assignedStaff, "bob"}
             /\ Len(notifications') = Len(notifications) + 1
             /\ notifications'[Len(notifications')].type = "TICKET_ESCALATED" ]_vars

\* C12: a createTicket request that reaches the controller with an order of
\* the actor persists a new ticket, Open and Medium, with exactly one message
\* sent by the actor, and one TICKET_CREATED notification for the owner.
C12_CreateTicketEffect ==
    [][ \A t \in TicketIds :
          (last'.op = "createTicket" /\ last'.tid = t /\ last'.reqText # NoText)
          => /\ ~tickets[t].exists
             /\ tickets'[t].exists
             /\ tickets'[t].user = last'.actor
             /\ tickets'[t].status = "Open"
             /\ tickets'[t].priority = "Medium"
             /\ Len(tickets'[t].messages) = 1
             /\ tickets'[t].messages[1].sender = last'.actor
             /\ Len(notifications') = Len(notifications) + 1
             /\ notifications'[Len(notifications')].type = "TICKET_CREATED"
             /\ notifications'[Len(notifications')].user = last'.actor ]_vars

\* Tickets of u whose creation date lies in the 24 hours before now.
TicketsOfLastDay(u) ==
    { t \in Tickets : tickets[t].user = u /\ now - tickets[t].createdAt <= TwentyFourHours }

\* C13: a createTicket request of a user who has five or more tickets created
\* in the preceding 24 hours is answered 429 and no ticket is created.
C13_TicketFloodRejected ==
    [][ (last'.op = "createTicket"
            /\ Cardinality(TicketsOfLastDay(last'.actor)) >= TicketFloodLimit)
        => /\ last'.code = "429"
           /\ tickets' = tickets ]_vars

\* The sixth creation: the user has exactly five tickets of the last 24 hours
\* and an older one or none, and the request was answered 429.
C13_Witness ==
    /\ last.op = "createTicket"
    /\ last.code = "429"
    /\ Cardinality(TicketsOfLastDay(last.actor)) = TicketFloodLimit
    /\ Cardinality(Tickets) = TicketFloodLimit

\* Messages u has sent on the tickets opened at this very instant, which
\* therefore lie within the last five minutes; counted over all tickets.
RECURSIVE SentJustNow(_, _)
SentJustNow(u, k) ==
    IF k = 0 THEN 0
    ELSE LET t == TicketOrder[k] IN
         SentJustNow(u, k - 1)
         + (IF Exists(t) /\ tickets[t].createdAt = now
            THEN Cardinality({ i \in 1..Len(tickets[t].messages) :
                                 tickets[t].messages[i].sender = u })
            ELSE 0)

\* C14: an append request of a user who has sent more than ten messages in
\* the preceding five minutes, counted over all messages of all tickets, is
\* answered 429 and appends no message.
C14_MessageFloodRejected ==
    [][ \A t \in Tickets :
          (last'.op = "addTicketMessage" /\ last'.tid = t
              /\ SentJustNow(last'.actor, Len(TicketOrder)) > MessageFloodLimit)
          => /\ last'.code = "429"
             /\ tickets'[t].messages = tickets[t].messages ]_vars

\* C15: every persisted ticket has a status and a priority of the schema's
\* enumerations.
C15_EnumsHold ==
    \A t \in Tickets :
        /\ tickets[t].status \in {"Open", "In Progress", "Resolved", "Closed"}
        /\ tickets[t].priority \in {"Low", "Medium", "High", "Urgent"}

\* C16: a setStatus request rejected because the new status is none of the
\* four values (400) or because the given staff is no user (404) leaves the
\* ticket as it was and adds no notification.
C16_RejectedSetStatusNoEffect ==
    [][ \A t \in Tickets :
          (last'.op = "updateTicketStatus" /\ last'.tid = t
              /\ (last'.reqStatus \notin ({Absent} \cup Statuses) \/ last'.code = "404"))
          => /\ last'.code \in {"400", "404"}
             /\ last'.reqStatus \notin ({Absent} \cup Statuses) => last'.code = "400"
             /\ tickets'[t] = tickets[t]
             /\ notifications' = notifications ]_vars

\* A request with an unknown staff id on an existing Open ticket was
\* answered 404 and the ticket is still Open.
C16_Witness ==
    \E t \in Tickets :
        /\ last.op = "updateTicketStatus" /\ last.tid = t
        /\ last.code = "404"
        /\ tickets[t].status = "Open"

\* C17: the messages a ticket has before a step are a prefix of the messages
\* it has after it.
C17_MessagesAppendOnly ==
    [][ \A t \in Tickets :
          /\ Len(tickets'[t].messages) >= Len(tickets[t].messages)
          /\ SubSeq(tickets'[t].messages, 1, Len(tickets[t].messages))
                 = tickets[t].messages ]_vars

\* C18: the registry holds one entry per user; a connection of a user writes
\* the new socket over the entry the user had, leaving the other entries
\* alone, and a send to that user right after it goes to the new socket only.
C18_RegistryReplaces ==
    [][ /\ dispatched'.op = "connect"
           => /\ userSockets'[dispatched'.user] = dispatched'.socket
              /\ \A u \in Users \ {dispatched'.user} : userSockets'[u] = userSockets[u]
        /\ (dispatched.op = "connect" /\ dispatched'.op = "broadcastNotification"
               /\ dispatched'.user = dispatched.user)
           => dispatched'.to = <<dispatched.socket>> ]_vars

\* A user has connected a second time while the first socket is still open,
\* and the registry holds the second socket.
C18_Witness ==
    /\ dispatched.op = "connect"
    /\ \A s \in SocketIds : sockets[s] = dispatched.user
    /\ userSockets[dispatched.user] = dispatched.socket

\* Tokens that are missing, that do not verify, or whose id no user has.
BadToken(token) ==
    ~token.present \/ ~token.signed \/ token.id \notin {"alice", "bob", "root"}

\* C19: a connection attempt with a missing token, an unverifiable token or
\* a token of no existing user is rejected and leaves the registry as it
\* was; an event sent on a socket that is not connected is not handled: no
\* ticket changes and nothing is emitted.
C19_BadHandshakeRejected ==
    [][ /\ (dispatched'.op \in {"connect", "connect_error"}
               /\ BadToken(dispatched'.token))
           => /\ dispatched'.op = "connect_error"
              /\ userSockets' = userSockets
              /\ sockets' = sockets
        /\ (dispatched'.op \in {"create_ticket", "update_ticket"}
               /\ sockets[dispatched'.socket] = NoUser)
           => /\ ~dispatched'.handled
              /\ dispatched'.to = <<>>
              /\ tickets' = tickets
              /\ last' = last ]_vars

\* A handshake with a token signed for an id no user has was rejected and
\* the socket is not connected.
C19_Witness ==
    /\ dispatched.op = "connect_error"
    /\ dispatched.token.signed
    /\ dispatched.token.id = GhostUser
    /\ sockets[dispatched.socket] = NoUser
    /\ \A u \in Users : userSockets[u] # dispatched.socket

\* How often socket s occurs in the sequence q.
Occurrences(q, s) == Cardinality({ i \in 1..Len(q) : q[i] = s })

\* C20: a send to a user without a registry entry throws nothing, emits
\* nothing and leaves the registry as it was; the new_ticket broadcast of a
\* created ticket goes once to each socket the registry holds for an admin
\* and to nothing else.
C20_SendToUnregistered ==
    [][ /\ (dispatched'.op = "broadcastNotification"
               /\ userSockets[dispatched'.user] = NoSocket)
           => /\ ~dispatched'.threw
              /\ dispatched'.to = <<>>
              /\ userSockets' = userSockets
              /\ sockets' = sockets
        /\ (dispatched'.op = "create_ticket" /\ dispatched'.handled /\ last'.saved)
           => /\ \A i \in 1..Len(dispatched'.to) : dispatched'.to[i] \in SocketIds
              /\ \A s \in SocketIds :
                    Occurrences(dispatched'.to, s)
                      = Cardinality({ a \in Users : isAdmin(a) /\ userSockets[a] = s })
       ]_vars

\* A send to a user without an entry emitted nothing while another user is
\* connected.
C20_Witness ==
    /\ dispatched.op = "broadcastNotification"
    /\ userSockets[dispatched.user] = NoSocket
    /\ dispatched.to = <<>>
    /\ \E u \in Users : userSockets[u] # NoSocket

\* The users a ticket-update event is to be dispatched to: the owner, the
\* assigned staff when one is set, and every admin.
UpdateRecipients(doc) ==
    {doc.user}
    \cup (IF doc.assignedStaff # NoUser THEN {doc.assignedStaff} ELSE {})
    \cup { a \in Users : isAdmin(a) }

\* C21: every message append or status change that is persisted dispatches
\* a notification for the ticket to its owner, to its assigned staff when
\* one is set, and to every admin.
C21_UpdateFanOut ==
    [][ \A t \in Tickets :
          (last'.op \in {"addTicketMessage", "updateTicketStatus"}
              /\ last'.tid = t /\ last'.saved)
          => \A u \in UpdateRecipients(tickets'[t]) :
                \E i \in (Len(notifications) + 1)..Len(notifications') :
                    /\ notifications'[i].user = u
                    /\ notifications'[i].ticket = t ]_vars

C23_EmailAlwaysAttempted ==
    [][ (dispatched'.op = "sendNotification" /\ dispatched'.persisted)
        => dispatched'.email \in {"sent", "failed"} ]_vars

\* C24: a ticket operation whose write is persisted answers with success,
\* whatever its notification step does.
C24_PersistedMeansSuccess ==
    [][ (last'.op \in {"createTicket", "addTicketMessage",
                       "updateTicketStatus", "escalateTicket"}
            /\ last'.saved)
        => last'.code \in {"200", "201"} ]_vars

\* C25: a dispatch of a type outside the six mapped ones persists a record
\* with the generic message and goes on to the delivery attempts.
C25_UnmappedTypeProceeds ==
    [][ (dispatched'.op = "sendNotification" /\ dispatched'.type \notin NotificationTypes)
        => /\ dispatched'.persisted
           /\ Len(notifications') = Len(notifications) + 1
           /\ notifications'[Len(notifications')].message.template = GenericMessage
           /\ dispatched'.push # "skipped" ]_vars

\* The notifications of one user, in order.
NotificationsOf(u) == SelectSeq(notifications, LAMBDA n : n.user = u)

\* The number of a user's notifications whose isRead is false.
Unread(u) == Len(SelectSeq(notifications, LAMBDA n : n.user = u /\ ~n.isRead))

\* C26: a mark-read answered with success leaves the notification's isRead
\* true, and the unread count of a list equals the number of the caller's
\* notifications whose isRead is false.
C26_ReadAndUnreadCount ==
    [][ /\ (dispatched'.op = "markNotificationAsRead" /\ dispatched'.code = "200")
           => notifications'[dispatched'.id].isRead
        /\ dispatched'.op = "getNotifications"
           => dispatched'.unreadCount = Unread(dispatched'.user) ]_vars

C28_OldDisconnectKeepsNewer ==
    [][ (dispatched'.op = "disconnect"
            /\ userSockets[dispatched'.user] # NoSocket
            /\ userSockets[dispatched'.user] # dispatched'.socket)
        => userSockets'[dispatched'.user] = userSockets[dispatched'.user] ]_vars

\* C29: a create_ticket or update_ticket event that fails is answered with
\* ticket_error and leaves the server running, the registry and the tickets
\* as they were.
C29_SocketFailureContained ==
    [][ (last'.op \in {"create_ticket", "update_ticket"}
            /\ last' # last
            /\ last'.code \notin {"new_ticket", "ticket_updated"})
        => /\ last'.code = "ticket_error"
           /\ serverUp'
           /\ userSockets' = userSockets
           /\ tickets' = tickets ]_vars

\* C30: when a request saves a ticket another request has written since it
\* was read, the persisted ticket is the document the later save holds.
C30_LastWriteWins ==
    [][ \A r \in Requests :
          (loaded[r] # Idle /\ loaded'[r] = Idle /\ last'.saved)
          => tickets'[loaded[r].tid] = PreSave(loaded[r].doc, now) ]_vars
====
